---- MODULE Spec2Model ----
(***************************************************************************)
(* sopel-chanlogs (src/sopel_chanlogs/plugin.py): a channel logger with a  *)
(* file sink guarded by per-path locks and a database sink.                *)
(*                                                                         *)
(* Every handler invocation runs on a host thread.  The model follows each *)
(* invocation statement by statement wherever the statement reads or       *)
(* writes state shared with other threads (the lock registry, the locks,   *)
(* the log files, the database, the host's channel table, the clock).      *)
(* Strings are sequences of one-character strings.                         *)
(*                                                                         *)
(* The specifications share the actions:                                   *)
(*   Spec        concurrent invocations of all six handlers;               *)
(*   SpecEnv     one invocation while the clock runs and the host changes  *)
(*               its channel table;                                        *)
(*   SpecLock    concurrent single-target invocations on two paths, from   *)
(*               the state a clean setup() leaves;                         *)
(*   SpecFan     concurrent single-target and fan-out invocations, and     *)
(*               SpecFanFair, the same under fair scheduling;              *)
(*   SpecSetup   setup(), a reload and setup() again;                      *)
(*   SpecQuery   concurrent calls of the query functions;                  *)
(*   SpecNorm    get_fpath applied to names over a small alphabet.         *)
(***************************************************************************)
EXTENDS Integers, Sequences, FiniteSets, TLC

(***************************************************************************)
(* Bounds of the model.                                                    *)
(***************************************************************************)
NumThreads == 2      \* concurrent handler invocations
MaxDay == 1          \* the clock runs over the days 0..MaxDay
MaxNameLen == 3      \* channel names given to the normalizer have 1..MaxNameLen characters
MaxHostOps == 1      \* membership changes the host makes while handlers run

Threads == 1..NumThreads
Days == 0..MaxDay

(***************************************************************************)
(* Names.  A channel name starts with the sigil "#"; a nick does not.      *)
(***************************************************************************)
NoName == << >>                       \* None / the empty string
Nicks == { <<"a">>, <<"B">> }
ChanOrder == << <<"#", "a">>, <<"#", "B">>, <<"#", "c">> >>  \* order of bot.channels
ChanNames == { ChanOrder[i] : i \in 1..Len(ChanOrder) }

\* Identifier.is_nick(): non-empty and not starting with a channel prefix
is_nick(s) == s # NoName /\ Head(s) # "#"

(***************************************************************************)
(* get_fpath: the channel token of the log file name.                      *)
(***************************************************************************)
\* BAD_CHARS = re.compile(r'[\/?%*:|"<>. ]')
BAD_CHARS == { "/", "?", "%", "*", ":", "|", "\"", "<", ">", ".", " " }

RECURSIVE lstrip(_)
\* channel.lstrip("#"): drop every leading "#"
lstrip(s) == IF s # << >> /\ Head(s) = "#" THEN lstrip(Tail(s)) ELSE s

RECURSIVE sub_bad_chars(_)
\* BAD_CHARS.sub('__', channel): each disallowed character becomes "__"
sub_bad_chars(s) ==
    IF s = << >> THEN << >>
    ELSE (IF Head(s) \in BAD_CHARS THEN <<"_", "_">> ELSE <<Head(s)>>)
         \o sub_bad_chars(Tail(s))

\* the rfc1459 case mapping of one character (Identifier.lower())
lower_char(c) ==
    CASE c = "A" -> "a"
      [] c = "B" -> "b"
      [] c = "[" -> "{"
      [] c = "]" -> "}"
      [] c = "\\" -> "|"
      [] c = "~" -> "^"
      [] OTHER -> c

\* bot.make_identifier(channel).lower()
make_identifier_lower(s) == [i \in 1..Len(s) |-> lower_char(s[i])]

\* lines 175-178 of get_fpath: the normalized channel token
clean_name(channel, sender) ==
    LET c0 == IF channel = NoName THEN sender ELSE channel   \* channel or trigger.sender
    IN make_identifier_lower(sub_bad_chars(lstrip(c0)))

\* The bytes of one line reach the end of the file in pieces, one after the
\* other: enough to tell a whole line from one cut by another writer.
LinePieces == <<"head", "tail">>

NoDate == -1
\* get_fpath(bot, trigger, channel): the path is the pair (token, date part)
get_fpath(by_day, channel, sender, now) ==
    [chan |-> clean_name(channel, sender),
     date |-> IF by_day THEN now ELSE NoDate]

(***************************************************************************)
(* Configuration (ChanlogsSection) and events (triggers).                  *)
(***************************************************************************)
Configs == [file_log : BOOLEAN, db_log : BOOLEAN, privmsg : BOOLEAN, by_day : BOOLEAN]

\* sender: the channel, or for a private message / QUIT the nick, or for
\* NICK the new nick (log_nick_change, line 377).  has_arg1: len(args) > 1.
Event(k, n, s, a) == [kind |-> k, nick |-> n, sender |-> s, has_arg1 |-> a]

EventInputs ==
       { Event("message", <<"a">>, s, TRUE) : s \in { <<"#", "a">>, <<"a">> } }
  \cup { Event("action", <<"a">>, <<"#", "a">>, TRUE) }
  \cup { Event("join", <<"B">>, <<"#", "B">>, FALSE),
         Event("part", <<"a">>, <<"#", "a">>, TRUE) }
  \cup { Event("topic", <<"a">>, <<"#", "a">>, a) : a \in BOOLEAN }
  \cup { Event("quit", n, n, TRUE) : n \in Nicks }
  \cup { Event("nick", <<"a">>, <<"B">>, FALSE) }

FanOut(e) == e.kind \in {"quit", "nick"}

VARIABLES
    cfg,        \* bot.config.chanlogs
    plugin,     \* setup(): state "start", then "ready" or "failed"; whether
                \* bot.memory has 'chanlog_locks'; whether the table exists;
                \* the errors setup logged
    clock,      \* the day datetime.now() falls on
    registry,   \* bot.memory['chanlog_locks']: path -> lock
    held,       \* the locks each thread holds (a lock is locked iff some thread holds it)
    files,      \* path -> the pieces appended to the file, in order
    rows,       \* the channel_logs table
    errlog,     \* bot.logger.error calls made by each thread
    channels,   \* bot.channels: name -> "absent", "joined" or "parted"
    users,      \* channel.users of each channel object
    hostOps,    \* operations the host has made so far (membership changes, reloads)
    pc,         \* where each handler invocation stands
    ev,         \* its trigger
    loc,        \* its local variables
    exc,        \* the exception that ended it, if one did
    hist        \* what each invocation has done (observation only)

vars == <<cfg, plugin, clock, registry, held, files, rows, errlog, channels,
          users, hostOps, pc, ev, loc, exc, hist>>

NoLock == [key |-> << >>, by |-> 0]
NoPath == [chan |-> << >>, date |-> NoDate]
NoLine == [by |-> 0, kind |-> "", date |-> NoDate]
Unbound == "unbound"
NoExc == "none"

\* every path get_fpath can return for the names of the model
Paths == { [chan |-> clean_name(NoName, s), date |-> d] :
               s \in ChanNames \cup Nicks, d \in Days \cup {NoDate} }

\* a registry whose factory hands out one lock object for every path
NewLock_Shared(k, t) == [key |-> NoPath, by |-> 1]

\* threading.Lock(): a new lock object, distinct from every other one
NewLock(k, t) == [key |-> k, by |-> t]

InitLoc == [logline |-> NoLine, channel |-> NoName, fpath |-> NoPath,
            lock |-> NoLock, written |-> 0, channels_copy |-> << >>, idx |-> 0,
            session |-> Unbound, clean_channel |-> Unbound, result |-> Unbound]

InitHist == [ioerr |-> FALSE, storeerr |-> FALSE, mutated |-> FALSE,
             snap |-> {}, appended |-> << >>, dbcalls |-> << >>]

\* everything but the configuration and the plugin's own state
InitRest ==
    /\ clock = 0
    /\ registry = [p \in Paths |-> NoLock]
    /\ held = [t \in Threads |-> {}]
    /\ files = [p \in Paths |-> << >>]
    /\ rows = << >>
    /\ errlog = [t \in Threads |-> 0]
    /\ channels = [c \in ChanNames |-> IF c = <<"#", "c">> THEN "absent" ELSE "joined"]
    /\ users = [c \in ChanNames |->
                  CASE c = <<"#", "a">> -> { <<"a">>, <<"B">> }
                    [] c = <<"#", "B">> -> { <<"a">> }
                    [] OTHER -> {}]
    /\ hostOps = 0
    /\ pc = [t \in Threads |-> "idle"]
    /\ ev = [t \in Threads |-> Event("none", NoName, NoName, FALSE)]
    /\ loc = [t \in Threads |-> InitLoc]
    /\ exc = [t \in Threads |-> NoExc]
    /\ hist = [t \in Threads |-> InitHist]

\* the bot before setup() runs
InitWith(configs) ==
    /\ cfg \in configs
    /\ plugin = [state |-> "start", locks |-> FALSE, tables |-> FALSE, errors |-> 0]
    /\ InitRest

(***************************************************************************)
(* Helpers on the state.                                                   *)
(***************************************************************************)
Locked(l) == \E u \in Threads : l \in held[u]

Raise(t, e) == /\ pc' = [pc EXCEPT ![t] = "raised"]
               /\ exc' = [exc EXCEPT ![t] = e]

\* _should_log_to_file / _should_log_to_db
_should_log_to_file == cfg.file_log
_should_log_to_db == cfg.db_log

\* where a handler goes once the work for one target is over
AfterTarget(e) == IF FanOut(e) THEN "loop" ELSE "done"
\* the statement after the file block: "if _should_log_to_db(bot)"
AfterFile(e) == IF _should_log_to_db THEN "db" ELSE AfterTarget(e)
\* the statement after the line is rendered: "if _should_log_to_file(bot)"
AfterRender(e) == IF _should_log_to_file THEN "fpath" ELSE AfterFile(e)

\* _format_template(tpl, bot, trigger): the default templates; TOPIC_TPL
\* reads trigger.args[1]
TemplateFails(e) == e.kind = "topic" /\ ~e.has_arg1
_format_template(t, kind, now) == [by |-> t, kind |-> kind, date |-> now]

(***************************************************************************)
(* setup(bot)                                                              *)
(***************************************************************************)
\* _create_db_tables: create_all, or SQLAlchemyError, which is logged
TableOutcomes == BOOLEAN

\* SopelMemoryWithDefault(threading.Lock): a registry without entries
EmptyRegistry == [p \in Paths |-> NoLock]

\* a setup that installs a new registry whatever bot.memory holds
InstallRegistry_Always(has, reg) == EmptyRegistry

\* lines 262-263: "if 'chanlog_locks' not in bot.memory: bot.memory[...] = ..."
InstallRegistry(has, reg) == IF has THEN reg ELSE EmptyRegistry

setup ==
    /\ plugin.state = "start"
    /\ IF ~cfg.file_log /\ ~cfg.db_log
       THEN /\ plugin' = [plugin EXCEPT !.state = "failed"]      \* raise ValueError
            /\ UNCHANGED registry
       ELSE /\ registry' = InstallRegistry(plugin.locks, registry)
            /\ \E ok \in (IF _should_log_to_db THEN TableOutcomes ELSE {TRUE}) :
                 plugin' = [state |-> "ready",
                            locks |-> TRUE,
                            \* create_all creates the table unless it exists
                            tables |-> plugin.tables \/ (_should_log_to_db /\ ok),
                            errors |-> IF ok THEN plugin.errors ELSE plugin.errors + 1]
    /\ UNCHANGED <<cfg, clock, held, files, rows, errlog, channels,
                   users, hostOps, pc, ev, loc, exc, hist>>

\* the host reloads the plugin: setup() will run again on the same bot,
\* whose memory and database are as the first run left them
Reload ==
    /\ plugin.state = "ready"
    /\ hostOps < MaxHostOps
    /\ hostOps' = hostOps + 1
    /\ plugin' = [plugin EXCEPT !.state = "start"]
    /\ UNCHANGED <<cfg, clock, registry, held, files, rows, errlog, channels,
                   users, pc, ev, loc, exc, hist>>

(***************************************************************************)
(* The environment: the clock and the host's channel table.                *)
(***************************************************************************)
Tick ==
    /\ clock < MaxDay
    /\ clock' = clock + 1
    /\ UNCHANGED <<cfg, plugin, registry, held, files, rows, errlog, channels,
                   users, hostOps, pc, ev, loc, exc, hist>>

Running(t) == pc[t] \notin {"idle", "done", "raised"}

HostChange(newChannels, newUsers) ==
    /\ plugin.state = "ready"
    /\ hostOps < MaxHostOps
    /\ hostOps' = hostOps + 1
    /\ channels' = newChannels
    /\ users' = newUsers
    /\ hist' = [t \in Threads |->
                  IF Running(t) THEN [hist[t] EXCEPT !.mutated = TRUE] ELSE hist[t]]
    /\ UNCHANGED <<cfg, plugin, clock, registry, held, files, rows, errlog,
                   pc, ev, loc, exc>>

HostAddUser(c, n) ==
    /\ channels[c] = "joined" /\ n \notin users[c]
    /\ HostChange(channels, [users EXCEPT ![c] = @ \cup {n}])

HostDelUser(c, n) ==
    /\ channels[c] = "joined" /\ n \in users[c]
    /\ HostChange(channels, [users EXCEPT ![c] = @ \ {n}])

HostAddChannel(c) ==
    /\ channels[c] = "absent"
    /\ HostChange([channels EXCEPT ![c] = "joined"], users)

HostDelChannel(c) ==
    /\ channels[c] = "joined"
    /\ HostChange([channels EXCEPT ![c] = "parted"], users)

(***************************************************************************)
(* The handlers.  The host runs handler(bot, trigger) on thread t; the     *)
(* first step of each is its code up to and including _format_template.    *)
(***************************************************************************)
Render(t, e, channel, next) ==
    /\ plugin.state = "ready" /\ plugin.locks
    /\ pc[t] = "idle"
    /\ ev' = [ev EXCEPT ![t] = e]
    /\ IF TemplateFails(e)
       THEN /\ pc' = [pc EXCEPT ![t] = "raised"]
            /\ exc' = [exc EXCEPT ![t] = "IndexError"]
            /\ UNCHANGED loc
       ELSE /\ loc' = [loc EXCEPT ![t].logline = _format_template(t, e.kind, clock),
                                  ![t].channel = channel]
            /\ pc' = [pc EXCEPT ![t] = next]
            /\ UNCHANGED exc

HandlerFrame == <<cfg, plugin, clock, registry, held, files, rows, errlog,
                  channels, users, hostOps, hist>>

log_message(t, e) ==
    /\ e.kind \in {"message", "action"}
    /\ IF is_nick(e.sender) /\ ~cfg.privmsg
       THEN /\ plugin.state = "ready"
            /\ pc[t] = "idle"
            /\ ev' = [ev EXCEPT ![t] = e]
            /\ pc' = [pc EXCEPT ![t] = "done"]
            /\ UNCHANGED <<loc, exc>>
       ELSE Render(t, e, NoName, AfterRender(e))
    /\ UNCHANGED HandlerFrame

log_join(t, e) ==
    /\ e.kind = "join"
    /\ Render(t, e, e.sender, AfterRender(e))
    /\ UNCHANGED HandlerFrame

log_part(t, e) ==
    /\ e.kind = "part"
    /\ Render(t, e, e.sender, AfterRender(e))
    /\ UNCHANGED HandlerFrame

log_topic(t, e) ==
    /\ e.kind = "topic"
    /\ Render(t, e, e.sender, AfterRender(e))
    /\ UNCHANGED HandlerFrame

log_quit(t, e) ==
    /\ e.kind = "quit"
    /\ Render(t, e, NoName, "snapshot")
    /\ UNCHANGED HandlerFrame

log_nick_change(t, e) ==
    /\ e.kind = "nick"
    /\ Render(t, e, NoName, "snapshot")
    /\ UNCHANGED HandlerFrame

(***************************************************************************)
(* The fan-out loop of log_quit and log_nick_change.                       *)
(***************************************************************************)
RECURSIVE JoinedFrom(_, _)
\* list(bot.channels.values()) from position i on: the joined channels
JoinedFrom(chs, i) ==
    IF i > Len(ChanOrder) THEN << >>
    ELSE (IF chs[ChanOrder[i]] = "joined" THEN <<ChanOrder[i]>> ELSE << >>)
         \o JoinedFrom(chs, i + 1)

\* "trigger.nick in channel.users" (quit);
\* "old_nick in channel.users or new_nick in channel.users" (nick change)
ListsNick(e, us) ==
    IF e.kind = "quit" THEN e.nick \in us
    ELSE e.nick \in us \/ e.sender \in us

\* channels_copy = list(bot.channels.values())
Snapshot(t) ==
    /\ pc[t] = "snapshot"
    /\ LET copy == JoinedFrom(channels, 1) IN
       /\ loc' = [loc EXCEPT ![t].channels_copy = copy, ![t].idx = 1]
       /\ hist' = [hist EXCEPT ![t].snap =
                     { c \in ChanNames : channels[c] = "joined" /\ ListsNick(ev[t], users[c]) }]
    /\ pc' = [pc EXCEPT ![t] = "loop"]
    /\ UNCHANGED <<cfg, plugin, clock, registry, held, files, rows, errlog,
                   channels, users, hostOps, ev, exc>>

\* one turn of "for channel in channels_copy: if ... in channel.users:"
Loop(t) ==
    /\ pc[t] = "loop"
    /\ IF loc[t].idx > Len(loc[t].channels_copy)
       THEN /\ pc' = [pc EXCEPT ![t] = "done"]
            /\ UNCHANGED loc
       ELSE LET c == loc[t].channels_copy[loc[t].idx] IN
            IF ListsNick(ev[t], users[c])
            THEN /\ loc' = [loc EXCEPT ![t].idx = @ + 1, ![t].channel = c]
                 /\ pc' = [pc EXCEPT ![t] = AfterRender(ev[t])]
            ELSE /\ loc' = [loc EXCEPT ![t].idx = @ + 1]
                 /\ UNCHANGED pc
    /\ UNCHANGED <<cfg, plugin, clock, registry, held, files, rows, errlog,
                   channels, users, hostOps, ev, exc, hist>>

(***************************************************************************)
(* The file sink:                                                          *)
(*     fpath = get_fpath(bot, trigger, channel)                            *)
(*     with bot.memory['chanlog_locks'][fpath]:                            *)
(*         with open(fpath, "ab") as f:                                    *)
(*             f.write(logline.encode('utf8'))                             *)
(***************************************************************************)
\* the channel the current target stands for
Target(t) == IF loc[t].channel = NoName THEN ev[t].sender ELSE loc[t].channel

\* fpath = get_fpath(...) and the read bot.memory['chanlog_locks'][fpath]:
\* a dict lookup; on a miss defaultdict.__missing__ calls the factory
\* (threading.Lock) and goes on to store the new lock through
\* SopelMemoryWithDefault.__setitem__, a Python method, before which other
\* threads can run
GetFpath(t) ==
    /\ pc[t] = "fpath"
    /\ LET k == get_fpath(cfg.by_day, loc[t].channel, ev[t].sender, clock)
           l == IF registry[k] # NoLock THEN registry[k] ELSE NewLock(k, t) IN
       /\ loc' = [loc EXCEPT ![t].fpath = k, ![t].lock = l]
       /\ pc' = [pc EXCEPT ![t] = IF registry[k] # NoLock THEN "acquire" ELSE "setitem"]
    /\ UNCHANGED <<cfg, plugin, clock, registry, held, files, rows, errlog,
                   channels, users, hostOps, ev, exc, hist>>

\* __missing__'s self[key] = value; __missing__ returns the value it made
RegistrySet(t) ==
    /\ pc[t] = "setitem"
    /\ registry' = [registry EXCEPT ![loc[t].fpath] = loc[t].lock]
    /\ pc' = [pc EXCEPT ![t] = "acquire"]
    /\ UNCHANGED <<cfg, plugin, clock, held, files, rows, errlog,
                   channels, users, hostOps, ev, loc, exc, hist>>

\* Lock.__enter__ (blocks while the lock is locked), then open(fpath, "ab")
LockAcquire(t) ==
    /\ pc[t] = "acquire"
    /\ ~Locked(loc[t].lock)
    /\ held' = [held EXCEPT ![t] = @ \cup {loc[t].lock}]
    /\ loc' = [loc EXCEPT ![t].written = 0]
    /\ pc' = [pc EXCEPT ![t] = "write"]
    /\ UNCHANGED <<cfg, plugin, clock, registry, files, rows, errlog,
                   channels, users, hostOps, ev, exc, hist>>

\* f.write(...) and the flush: the bytes of the line reach the end of the
\* file piece by piece
FileWrite(t) ==
    /\ pc[t] = "write"
    /\ LET n == loc[t].written + 1 IN
       /\ files' = [files EXCEPT ![loc[t].fpath] =
                       Append(@, [line |-> loc[t].logline, part |-> LinePieces[n]])]
       /\ loc' = [loc EXCEPT ![t].written = n]
       /\ pc' = [pc EXCEPT ![t] = IF n = Len(LinePieces) THEN "close" ELSE "write"]
    /\ UNCHANGED <<cfg, plugin, clock, registry, held, rows, errlog,
                   channels, users, hostOps, ev, exc, hist>>

\* a fan-out handler that keeps each target's lock while it goes on to the
\* next target
FileClose_HoldAcrossTargets(t) ==
    /\ pc[t] = "close"
    /\ held' = [held EXCEPT ![t] = IF FanOut(ev[t]) THEN @ ELSE @ \ {loc[t].lock}]
    /\ hist' = [hist EXCEPT ![t].appended = Append(@, Target(t))]
    /\ pc' = [pc EXCEPT ![t] = AfterFile(ev[t])]
    /\ UNCHANGED <<cfg, plugin, clock, registry, files, rows, errlog,
                   channels, users, hostOps, ev, loc, exc>>

\* with blocks that end without releasing the lock
FileClose_KeepLock(t) ==
    /\ pc[t] = "close"
    /\ hist' = [hist EXCEPT ![t].appended = Append(@, Target(t))]
    /\ pc' = [pc EXCEPT ![t] = AfterFile(ev[t])]
    /\ UNCHANGED <<cfg, plugin, clock, registry, held, files, rows, errlog,
                   channels, users, hostOps, ev, loc, exc>>

\* the end of both with blocks: the file is closed, the lock released
FileClose(t) ==
    /\ pc[t] = "close"
    /\ held' = [held EXCEPT ![t] = @ \ {loc[t].lock}]
    /\ hist' = [hist EXCEPT ![t].appended = Append(@, Target(t))]
    /\ pc' = [pc EXCEPT ![t] = AfterFile(ev[t])]
    /\ UNCHANGED <<cfg, plugin, clock, registry, files, rows, errlog,
                   channels, users, hostOps, ev, loc, exc>>

\* an OSError that leaves the handler with the lock still locked
FileError_KeepLock(t) ==
    /\ pc[t] = "write"
    /\ hist' = [hist EXCEPT ![t].ioerr = TRUE]
    /\ Raise(t, "OSError")
    /\ UNCHANGED <<cfg, plugin, clock, registry, held, files, rows, errlog,
                   channels, users, hostOps, ev, loc>>

\* open() (nothing written yet) or write() raises OSError: Lock.__exit__ releases the lock and the
\* exception leaves the handler
FileError(t) ==
    /\ pc[t] = "write"
    /\ held' = [held EXCEPT ![t] = @ \ {loc[t].lock}]
    /\ hist' = [hist EXCEPT ![t].ioerr = TRUE]
    /\ Raise(t, "OSError")
    /\ UNCHANGED <<cfg, plugin, clock, registry, files, rows, errlog,
                   channels, users, hostOps, ev, loc>>

(***************************************************************************)
(* The database sink: _log_to_database.                                    *)
(***************************************************************************)
\* the nick, event_type and message_content arguments of each handler's call
DbNick(e) == e.nick
DbMessage(e) ==
    CASE e.kind \in {"message", "action"} -> "text"
      [] e.kind = "nick" -> "new_nick"
      [] e.kind = "topic" /\ e.has_arg1 -> "topic"
      [] OTHER -> "None"

\* lines 210-211: the call and session = bot.db.session().  When session()
\* raises SQLAlchemyError the handler at 228 logs it; session is unbound, so
\* rollback() and close() raise NameError inside their bare excepts.
DbSession(t) ==
    /\ pc[t] = "db"
    /\ \E ok \in BOOLEAN :
         IF ok
         THEN /\ loc' = [loc EXCEPT ![t].session = "open", ![t].clean_channel = Unbound]
              /\ pc' = [pc EXCEPT ![t] = "dbbody"]
              /\ hist' = [hist EXCEPT ![t].dbcalls = Append(@, Target(t))]
              /\ UNCHANGED errlog
         ELSE /\ errlog' = [errlog EXCEPT ![t] = @ + 1]
              /\ pc' = [pc EXCEPT ![t] = AfterTarget(ev[t])]
              /\ hist' = [hist EXCEPT ![t].dbcalls = Append(@, Target(t)),
                                      ![t].storeerr = TRUE]
              /\ UNCHANGED loc
    /\ UNCHANGED <<cfg, plugin, clock, registry, held, files, rows,
                   channels, users, hostOps, ev, exc>>

\* lines 212-238.  Line 214 reads the local clean_channel before anything
\* has assigned it: UnboundLocalError, which "except SQLAlchemyError" does not
\* catch; the finally clause closes the session and the exception leaves
\* _log_to_database.  Otherwise the row is added and committed, or add/commit
\* raises SQLAlchemyError, which is logged and rolled back.
DbBody(t) ==
    /\ pc[t] = "dbbody"
    /\ IF loc[t].clean_channel = Unbound
       THEN /\ Raise(t, "UnboundLocalError")
            /\ loc' = [loc EXCEPT ![t].session = "closed"]
            /\ UNCHANGED <<rows, errlog, hist>>
       ELSE /\ loc' = [loc EXCEPT ![t].session = "closed"]
            /\ pc' = [pc EXCEPT ![t] = AfterTarget(ev[t])]
            /\ UNCHANGED exc
            /\ \E ok \in (IF plugin.tables THEN BOOLEAN ELSE {FALSE}) :
                 IF ok
                 THEN /\ rows' = Append(rows,
                            [timestamp |-> clock,
                             channel |-> make_identifier_lower(loc[t].clean_channel),
                             nick |-> DbNick(ev[t]),
                             event_type |-> ev[t].kind,
                             message |-> DbMessage(ev[t]),
                             raw_line |-> loc[t].logline])
                      /\ UNCHANGED <<errlog, hist>>
                 ELSE /\ errlog' = [errlog EXCEPT ![t] = @ + 1]
                      /\ hist' = [hist EXCEPT ![t].storeerr = TRUE]
                      /\ UNCHANGED rows
    /\ UNCHANGED <<cfg, plugin, clock, registry, held, files,
                   channels, users, hostOps, ev>>

(***************************************************************************)
(* The query functions: get_recent_messages, search_messages.              *)
(***************************************************************************)
QueryFns == {"get_recent_messages", "search_messages"}

\* lines 419-423 and 443-447: "if not _should_log_to_db(bot): return None",
\* then session = bot.db.session().  When session() raises SQLAlchemyError
\* the handler logs it and returns None; close() in the finally clause
\* raises NameError inside its bare except.
QueryCall(t, fn, channel) ==
    /\ plugin.state = "ready"
    /\ pc[t] = "idle"
    /\ ev' = [ev EXCEPT ![t] = Event(fn, NoName, channel, FALSE)]
    /\ IF ~_should_log_to_db
       THEN /\ loc' = [loc EXCEPT ![t].result = "None"]
            /\ pc' = [pc EXCEPT ![t] = "done"]
            /\ UNCHANGED <<errlog, hist>>
       ELSE \E ok \in BOOLEAN :
              IF ok
              THEN /\ loc' = [loc EXCEPT ![t].session = "open",
                                         ![t].clean_channel = Unbound]
                   /\ pc' = [pc EXCEPT ![t] = "qbody"]
                   /\ UNCHANGED <<errlog, hist>>
              ELSE /\ errlog' = [errlog EXCEPT ![t] = @ + 1]
                   /\ hist' = [hist EXCEPT ![t].storeerr = TRUE]
                   /\ loc' = [loc EXCEPT ![t].result = "None"]
                   /\ pc' = [pc EXCEPT ![t] = "done"]
    /\ UNCHANGED <<cfg, plugin, clock, registry, held, files, rows,
                   channels, users, hostOps, exc>>

get_recent_messages(t, channel) == QueryCall(t, "get_recent_messages", channel)

search_messages(t, channel) == QueryCall(t, "search_messages", channel)

\* the filter of each query: the channel column, and for search_messages
\* "ChannelLog.message.contains(search_term)" (a message that is not NULL)
QueryFilter(fn, clean, r) ==
    /\ r.channel = clean
    /\ (fn = "search_messages" => r.message # "None")

\* lines 424-438 and 448-463.  Lines 424 and 448 read the local
\* clean_channel before anything has assigned it: UnboundLocalError, which
\* "except SQLAlchemyError" does not catch; the finally clause closes the
\* session and the exception leaves the function.  Otherwise the query
\* returns its rows, or raises SQLAlchemyError, which is logged; then None
\* is returned.
QueryBody(t) ==
    /\ pc[t] = "qbody"
    /\ IF loc[t].clean_channel = Unbound
       THEN /\ Raise(t, "UnboundLocalError")
            /\ loc' = [loc EXCEPT ![t].session = "closed"]
            /\ UNCHANGED <<errlog, hist>>
       ELSE /\ pc' = [pc EXCEPT ![t] = "done"]
            /\ UNCHANGED exc
            /\ \E ok \in BOOLEAN :
                 IF ok
                 THEN /\ loc' = [loc EXCEPT
                            ![t].session = "closed",
                            ![t].result = SelectSeq(rows, LAMBDA r :
                                QueryFilter(ev[t].kind,
                                    make_identifier_lower(loc[t].clean_channel), r))]
                      /\ UNCHANGED <<errlog, hist>>
                 ELSE /\ errlog' = [errlog EXCEPT ![t] = @ + 1]
                      /\ hist' = [hist EXCEPT ![t].storeerr = TRUE]
                      /\ loc' = [loc EXCEPT ![t].session = "closed",
                                            ![t].result = "None"]
    /\ UNCHANGED <<cfg, plugin, clock, registry, held, files, rows,
                   channels, users, hostOps, ev>>

(***************************************************************************)
(* The specification.                                                      *)
(***************************************************************************)
Handle(t) ==
    \/ \E e \in EventInputs : log_message(t, e)
    \/ \E e \in EventInputs : log_join(t, e)
    \/ \E e \in EventInputs : log_part(t, e)
    \/ \E e \in EventInputs : log_topic(t, e)
    \/ \E e \in EventInputs : log_quit(t, e)
    \/ \E e \in EventInputs : log_nick_change(t, e)

FanStep(t) ==
    \/ Snapshot(t)
    \/ Loop(t)

SinkStep(t) ==
    \/ GetFpath(t)
    \/ RegistrySet(t)
    \/ LockAcquire(t)
    \/ FileWrite(t)
    \/ FileClose(t)
    \/ FileError(t)
    \/ DbSession(t)
    \/ DbBody(t)

Init == InitWith({ c \in Configs : c.by_day })

\* concurrent handler invocations; the clock and the channel table stand still
Next ==
    \/ setup
    \/ \E t \in Threads : Handle(t)
    \/ \E t \in Threads : FanStep(t)
    \/ \E t \in Threads : SinkStep(t)

Spec == Init /\ [][Next]_vars

\* concurrent single-target invocations on two paths, file sink enabled:
\* "#a" and a private message from "a" share a path, "#B" has its own
LockInputs == { Event("message", <<"a">>, <<"#", "a">>, TRUE),
                Event("message", <<"a">>, <<"a">>, TRUE),
                Event("join", <<"B">>, <<"#", "B">>, FALSE) }

\* the bot after a setup() that met no error
InitLock ==
    /\ cfg \in { c \in Configs : c.by_day /\ c.privmsg /\ c.file_log }
    /\ plugin = [state |-> "ready", locks |-> TRUE, tables |-> cfg.db_log, errors |-> 0]
    /\ InitRest

NextLock ==
    \/ \E t \in Threads, e \in LockInputs : log_message(t, e)
    \/ \E t \in Threads, e \in LockInputs : log_join(t, e)
    \/ \E t \in Threads : SinkStep(t)

SpecLock == InitLock /\ [][NextLock]_vars

\* one handler invocation under any configuration, while the clock runs and
\* the host changes its channel table
InitEnv == InitWith(Configs)

NextEnv ==
    \/ setup
    \/ Tick
    \/ \E c \in ChanNames, n \in Nicks : HostAddUser(c, n)
    \/ \E c \in ChanNames, n \in Nicks : HostDelUser(c, n)
    \/ \E c \in ChanNames : HostAddChannel(c)
    \/ \E c \in ChanNames : HostDelChannel(c)
    \/ Handle(1)
    \/ FanStep(1)
    \/ SinkStep(1)

SpecEnv == InitEnv /\ [][NextEnv]_vars

\* concurrent calls of the query functions under any configuration
QueryChannels == ChanNames \cup Nicks

NextQuery ==
    \/ setup
    \/ \E t \in Threads, c \in QueryChannels : get_recent_messages(t, c)
    \/ \E t \in Threads, c \in QueryChannels : search_messages(t, c)
    \/ \E t \in Threads : QueryBody(t)

SpecQuery == InitEnv /\ [][NextQuery]_vars

\* setup(), a reload and setup() again under any configuration, with one
\* handler invocation that uses the registry
NextSetup ==
    \/ setup
    \/ Reload
    \/ \E e \in LockInputs : log_join(1, e)
    \/ SinkStep(1)

SpecSetup == InitEnv /\ [][NextSetup]_vars

\* the characters of the names given to the normalizer: the sigil, letters
\* of both cases, characters of BAD_CHARS, characters the case mapping moves
NameChars == { "#", "a", "B", ".", "|", "\\", "[" }
NameInputs == UNION { [1..n -> NameChars] : n \in 1..MaxNameLen }

\* get_fpath(bot, trigger, channel=x) for a name x
NormalizeName(t, x) ==
    /\ pc[t] = "idle"
    /\ loc' = [loc EXCEPT ![t].channel = x,
                          ![t].fpath = get_fpath(cfg.by_day, x, NoName, clock)]
    /\ pc' = [pc EXCEPT ![t] = "named"]
    /\ UNCHANGED <<cfg, plugin, clock, registry, held, files, rows, errlog,
                   channels, users, hostOps, ev, exc, hist>>

\* get_fpath again, for the token the first call returned
RenormalizeName(t) ==
    /\ pc[t] = "named"
    /\ loc' = [loc EXCEPT ![t].channel = loc[t].fpath.chan,
                          ![t].fpath = get_fpath(cfg.by_day, loc[t].fpath.chan,
                                                 NoName, clock)]
    /\ pc' = [pc EXCEPT ![t] = "renamed"]
    /\ UNCHANGED <<cfg, plugin, clock, registry, held, files, rows, errlog,
                   channels, users, hostOps, ev, exc, hist>>

\* the normalizer applied to every name of the bounded alphabet, and to
\* its own result
InitNorm == InitWith({ c \in Configs : c.file_log /\ ~c.db_log /\ ~c.privmsg })

NextNorm ==
    \/ \E x \in NameInputs : NormalizeName(1, x)
    \/ RenormalizeName(1)

SpecNorm == InitNorm /\ [][NextNorm]_vars

\* concurrent invocations, single-target and fan-out, with the file sink
\* enabled, from the state a clean setup() leaves: a quit of "a" goes to
\* "#a" and "#B", a message to "#a" meets it on the first of them
FanInputs == { Event("message", <<"a">>, <<"#", "a">>, TRUE),
               Event("quit", <<"a">>, <<"a">>, TRUE) }

InitFan ==
    /\ cfg \in { c \in Configs : c.by_day /\ ~c.privmsg /\ c.file_log }
    /\ plugin = [state |-> "ready", locks |-> TRUE, tables |-> cfg.db_log, errors |-> 0]
    /\ InitRest

NextFan ==
    \/ \E t \in Threads, e \in FanInputs : log_message(t, e)
    \/ \E t \in Threads, e \in FanInputs : log_quit(t, e)
    \/ \E t \in Threads : FanStep(t)
    \/ \E t \in Threads : SinkStep(t)

SpecFan == InitFan /\ [][NextFan]_vars

\* the host runs every invocation on a thread of its own, which the
\* scheduler lets run again and again; a step that can be taken (a loop
\* turn, a lookup, an acquire of a free lock, a sink call returning) is
\* eventually taken
SpecFanFair ==
    /\ SpecFan
    /\ \A t \in Threads : WF_vars(FanStep(t)) /\ WF_vars(SinkStep(t))

(***************************************************************************)
(* Observations used by the properties.                                    *)
(***************************************************************************)
Finished(t) == pc[t] \in {"done", "raised"}

\* inside "with open(fpath, 'ab') as f: f.write(...)"
InFile(t) == pc[t] \in {"write", "close"}

\* inside _log_to_database
InStore(t) == pc[t] = "dbbody"

\* the environment failed a sink call of t (an I/O error, a store error)
EnvFail(t) == hist[t].ioerr \/ hist[t].storeerr

\* t's event got past the private-message test and the template
ReachedSinks(t) == loc[t].logline # NoLine

Range(q) == { q[i] : i \in 1..Len(q) }
Count(q, x) == Cardinality({ i \in 1..Len(q) : q[i] = x })
RowsOf(t) == Cardinality({ i \in 1..Len(rows) : rows[i].raw_line.by = t })

\* f consists of whole lines, each in one piece after the other
WholeLines(f) ==
    /\ Len(f) % Len(LinePieces) = 0
    /\ \A i \in 1..Len(f) :
         LET j == (i - 1) % Len(LinePieces) IN
         /\ f[i].part = LinePieces[j + 1]
         /\ f[i].line = f[i - j].line

(***************************************************************************)
(* C1: for every path K at most one thread is inside the open/append/close *)
(* of K's file, and a thread inside it holds the lock the registry has     *)
(* for K.  The code does not keep this: two first uses of K can each make  *)
(* a lock of their own.                                                    *)
(***************************************************************************)
C1_OneWriterPerKey ==
    \A t \in Threads : InFile(t) =>
        /\ registry[loc[t].fpath] \in held[t]
        /\ \A u \in Threads \ {t} : InFile(u) => loc[u].fpath # loc[t].fpath

(***************************************************************************)
(* C2: when every one of the N invocations is a single-target one that     *)
(* appended to the same path K without an I/O error, K's file holds        *)
(* exactly N whole lines, one per invocation.  Fails with C1.              *)
(***************************************************************************)
C2_NWholeLines ==
    \A k \in Paths :
        (\A t \in Threads :
            /\ Finished(t) /\ ~FanOut(ev[t]) /\ ~hist[t].ioerr
            /\ Len(hist[t].appended) = 1 /\ loc[t].fpath = k)
        => /\ Len(files[k]) = NumThreads * Len(LinePieces)
           /\ WholeLines(files[k])
           /\ \A t \in Threads :
                Count(files[k], [line |-> loc[t].logline, part |-> Head(LinePieces)]) = 1

(***************************************************************************)
(* C3: every lookup of a path returns the same lock object, also when the  *)
(* first lookups of the path run concurrently.  The code does not keep it. *)
(***************************************************************************)
C3_OneLockPerKey ==
    \A t, u \in Threads :
        (loc[t].lock # NoLock /\ loc[u].lock # NoLock /\ loc[t].fpath = loc[u].fpath)
        => loc[t].lock = loc[u].lock

(***************************************************************************)
(* C4: writers for distinct paths never block each other: the lock a       *)
(* thread waits for is held, if at all, by a thread that is inside the     *)
(* file block of the same path; a thread inside the store call holds no    *)
(* lock.  So a thread waiting for K' can acquire as soon as no thread is   *)
(* inside the file block of K', whatever is stalled elsewhere.             *)
(***************************************************************************)
C4_DistinctKeysNeverBlock ==
    /\ \A t \in Threads : pc[t] = "acquire" =>
          /\ \A u \in Threads \ {t} :
                loc[t].lock \in held[u] => (InFile(u) /\ loc[u].fpath = loc[t].fpath)
          /\ (\A u \in Threads \ {t} : InFile(u) => loc[u].fpath # loc[t].fpath)
                => ENABLED LockAcquire(t)
    /\ \A u \in Threads : (pc[u] = "db" \/ InStore(u)) => held[u] = {}

\* u is stalled in the middle of its append while t, on another path, has
\* acquired its lock and written its whole line
C4_Witness ==
    \E t, u \in Threads :
        /\ t # u
        /\ pc[u] = "write" /\ loc[u].written = 1
        /\ pc[t] = "close"
        /\ loc[u].fpath # loc[t].fpath

(***************************************************************************)
(* C5: a single-target event that reaches the sinks, when no sink call is  *)
(* failed by the environment: one file append iff file_log, one row        *)
(* persisted iff db_log, no lock taken when file_log is off.  Fails: the   *)
(* store call of the code never persists a row (C10).                      *)
(***************************************************************************)
C5_SinkIndependence ==
    \A t \in Threads :
        (Finished(t) /\ ~FanOut(ev[t]) /\ ReachedSinks(t) /\ ~EnvFail(t))
        => /\ Len(hist[t].appended) = (IF cfg.file_log THEN 1 ELSE 0)
           /\ RowsOf(t) = (IF cfg.db_log THEN 1 ELSE 0)
           /\ (~cfg.file_log => loc[t].lock = NoLock)

(***************************************************************************)
(* C6: with both sinks enabled, the store sink is invoked for the target   *)
(* whose file append failed with an I/O error.  Fails: the I/O error       *)
(* leaves the handler before the store call.                               *)
(***************************************************************************)
C6_StoreDespiteFileError ==
    \A t \in Threads :
        (Finished(t) /\ cfg.file_log /\ cfg.db_log /\ hist[t].ioerr)
        => Target(t) \in Range(hist[t].dbcalls)

(***************************************************************************)
(* C7: a quit of nick n, the channel table unchanged during the call and   *)
(* no sink call failed by the environment, leaves exactly one entry per    *)
(* enabled sink for every channel that lists n and none for the others.    *)
(* Fails when db_log is on (C10).                                          *)
(***************************************************************************)
\* hist[t].snap: the channels that listed the nick when the handler copied
\* the channel list (with the table unchanged: throughout the call)
FanOutEntries(t) ==
    /\ \A c \in ChanNames :
          Count(hist[t].appended, c) =
             (IF cfg.file_log /\ c \in hist[t].snap THEN 1 ELSE 0)
    /\ RowsOf(t) = (IF cfg.db_log THEN Cardinality(hist[t].snap) ELSE 0)

C7_QuitFanOut ==
    \A t \in Threads :
        (Finished(t) /\ ev[t].kind = "quit" /\ ~EnvFail(t) /\ ~hist[t].mutated)
        => pc[t] = "done" /\ FanOutEntries(t)

(***************************************************************************)
(* C8: a nick change from o to n, likewise: exactly one entry per enabled  *)
(* sink for every channel that lists o or n, none for the others.  Fails   *)
(* when db_log is on (C10).                                                *)
(***************************************************************************)
C8_NickFanOut ==
    \A t \in Threads :
        (Finished(t) /\ ev[t].kind = "nick" /\ ~EnvFail(t) /\ ~hist[t].mutated)
        => pc[t] = "done" /\ FanOutEntries(t)

(***************************************************************************)
(* C9: the channels a quit or nick-change handler logs to are those that   *)
(* listed the nick when the snapshot was taken, whatever the host does to  *)
(* the channel table meanwhile, and the handler does not fail.  Stated     *)
(* here for the file sink alone (db_log off), where C10 does not           *)
(* interfere.  Fails: the copy holds the channel objects, whose member     *)
(* sets are read when the loop reaches them.                               *)
(***************************************************************************)
C9_SnapshotFixesTargets ==
    \A t \in Threads :
        (Finished(t) /\ FanOut(ev[t]) /\ ~EnvFail(t) /\ ~cfg.db_log)
        => /\ pc[t] = "done"
           /\ Range(hist[t].appended) = hist[t].snap

(***************************************************************************)
(* C10: a store sink call never raises into the handler: every call that   *)
(* has returned either persisted one row or logged one error.  Fails:      *)
(* line 214 raises UnboundLocalError, which leaves the handler.            *)
(***************************************************************************)
C10_StoreNeverRaises ==
    \A t \in Threads :
        /\ exc[t] # "UnboundLocalError"
        /\ (~InStore(t)) => Len(hist[t].dbcalls) = RowsOf(t) + errlog[t]

(***************************************************************************)
(* C11: get_recent_messages and search_messages never raise: a call that   *)
(* has ended has returned; with db_log off it returned None and opened no  *)
(* session; when the query failed it returned None; with db_log on and a   *)
(* healthy store it returned a sequence of rows, whatever the channel      *)
(* argument.  The store is left as it was.  Fails: lines 424 and 448 raise *)
(* UnboundLocalError whenever a session was opened.                        *)
(***************************************************************************)
IsQuery(t) == ev[t].kind \in QueryFns

C11_QueriesNeverRaise ==
    /\ rows = << >>
    /\ \A t \in Threads : (IsQuery(t) /\ Finished(t)) =>
          /\ pc[t] = "done" /\ exc[t] = NoExc
          /\ (~cfg.db_log => (loc[t].result = "None" /\ loc[t].session = Unbound))
          /\ (hist[t].storeerr => loc[t].result = "None")
          /\ ((cfg.db_log /\ ~hist[t].storeerr) => loc[t].result \in Seq(Range(rows)))

(***************************************************************************)
(* C12, as stated: setup() fails if and only if file_log and db_log are    *)
(* both false; a failed setup leaves no registry and no table; a           *)
(* successful one leaves a registry, and the table exists exactly when     *)
(* db_log is true.  The last part does not hold: create_all can fail, the  *)
(* error is logged and setup() still succeeds, without the table.          *)
(***************************************************************************)
SetupFailsIffNoSink ==
    plugin.state # "start" =>
        /\ (plugin.state = "failed" <=> (~cfg.file_log /\ ~cfg.db_log))
        /\ (plugin.state = "failed" => (~plugin.locks /\ ~plugin.tables
                                          /\ registry = EmptyRegistry))
        /\ (plugin.state = "ready" => plugin.locks)

C12_SetupContract ==
    /\ SetupFailsIffNoSink
    /\ (plugin.state = "ready" => (plugin.tables <=> cfg.db_log))

(***************************************************************************)
(* C12, amended: as above, but the table is created only when db_log is    *)
(* true and exists whenever db_log is true and no create_all has failed;   *)
(* and a setup() that finds a registry leaves it and its entries as they   *)
(* are.                                                                    *)
(***************************************************************************)
C12_SetupContractAmended ==
    /\ [](/\ SetupFailsIffNoSink
          /\ (plugin.tables => cfg.db_log)
          /\ ((plugin.state = "ready" /\ cfg.db_log /\ plugin.errors = 0)
                 => plugin.tables))
    /\ [][(plugin.state = "start" /\ plugin.locks /\ plugin'.state = "ready")
             => registry' = registry]_vars

\* setup() has run again after a reload, and the registry holds the lock
\* the handler invocation has used
C12_Witness ==
    /\ plugin.state = "ready" /\ hostOps = 1
    /\ pc[1] = "done" /\ loc[1].lock # NoLock
    /\ registry[loc[1].fpath] = loc[1].lock

(***************************************************************************)
(* C13: a message or action whose sender is a nick, with privmsg off,      *)
(* reaches no sink: no file append, no registry lookup, no store call, no  *)
(* row.  With privmsg on, or a channel as sender, and no sink call failed  *)
(* by the environment, the event is in every enabled sink: one append iff  *)
(* file_log, one row iff db_log.  Fails when db_log is on (C10).           *)
(***************************************************************************)
Dropped(t) == is_nick(ev[t].sender) /\ ~cfg.privmsg

C13_PrivmsgToggle ==
    \A t \in Threads :
        (Finished(t) /\ ev[t].kind \in {"message", "action"} /\ ~EnvFail(t)) =>
            IF Dropped(t)
            THEN /\ pc[t] = "done" /\ ~ReachedSinks(t)
                 /\ hist[t].appended = << >> /\ hist[t].dbcalls = << >>
                 /\ loc[t].fpath = NoPath /\ loc[t].lock = NoLock
                 /\ RowsOf(t) = 0
            ELSE /\ pc[t] = "done"
                 /\ Len(hist[t].appended) = (IF cfg.file_log THEN 1 ELSE 0)
                 /\ RowsOf(t) = (IF cfg.db_log THEN 1 ELSE 0)

(***************************************************************************)
(* C14: a topic change without a topic text does not raise: the line is    *)
(* rendered, and with no sink call failed by the environment it is in      *)
(* every enabled sink, the row's message being NULL.  Fails: TOPIC_TPL     *)
(* reads trigger.args[1], so _format_template raises IndexError.           *)
(***************************************************************************)
C14_TopicWithoutText ==
    \A t \in Threads :
        (Finished(t) /\ ev[t].kind = "topic" /\ ~ev[t].has_arg1 /\ ~EnvFail(t)) =>
            /\ pc[t] = "done" /\ exc[t] = NoExc
            /\ ReachedSinks(t)
            /\ Len(hist[t].appended) = (IF cfg.file_log THEN 1 ELSE 0)
            /\ RowsOf(t) = (IF cfg.db_log THEN 1 ELSE 0)
            /\ \A i \in 1..Len(rows) :
                  rows[i].raw_line.by = t => rows[i].message = "None"

(***************************************************************************)
(* C15: every store call that the environment did not fail has persisted   *)
(* a row whose channel field is the normalized token of the call's channel *)
(* argument, the token get_fpath puts in the file name for that target;    *)
(* no row has another channel field.  Fails: line 214 normalizes the       *)
(* unassigned clean_channel, not the channel argument, and raises before   *)
(* any row is built.                                                       *)
(***************************************************************************)
C15_ChannelFieldNormalized ==
    \A t \in Threads :
        (Finished(t) /\ ~EnvFail(t)) =>
            /\ \A i \in 1..Len(hist[t].dbcalls) :
                  \E j \in 1..Len(rows) :
                     /\ rows[j].raw_line.by = t
                     /\ rows[j].channel = clean_name(hist[t].dbcalls[i], NoName)
            /\ \A j \in 1..Len(rows) :
                  rows[j].raw_line.by = t =>
                     \E i \in 1..Len(hist[t].dbcalls) :
                        rows[j].channel = clean_name(hist[t].dbcalls[i], NoName)

(***************************************************************************)
(* C16: normalizing a token the normalizer returned gives the same token,  *)
(* and a returned token contains no character of BAD_CHARS, for every name *)
(* over the sigil, letters of both cases and disallowed characters.        *)
(* Fails: the case folding runs after the substitution and maps "\\" to    *)
(* "|", which is a disallowed character.                                   *)
(***************************************************************************)
C16_NormalizeIdempotent ==
    /\ pc[1] \in {"named", "renamed"} =>
          \A i \in 1..Len(loc[1].fpath.chan) : loc[1].fpath.chan[i] \notin BAD_CHARS
    /\ pc[1] = "renamed" => loc[1].fpath.chan = loc[1].channel

(***************************************************************************)
(* C17: a thread holds a lock only while it is inside the open/append/     *)
(* close of the file the lock guards, and then only that one lock; its     *)
(* line was rendered before it came to acquire.  So no thread holds a lock *)
(* before or during _format_template (the step from idle), in get_fpath,   *)
(* in the registry lookup, in the fan-out loop or in _log_to_database.     *)
(***************************************************************************)
C17_LockOnlyAcrossFileBlock ==
    \A t \in Threads :
        /\ held[t] # {} => (InFile(t) /\ held[t] = {loc[t].lock})
        /\ pc[t] \in {"idle", "snapshot", "loop", "fpath", "setitem", "acquire",
                       "db", "dbbody", "done", "raised"} => held[t] = {}
        /\ pc[t] \in {"fpath", "setitem", "acquire", "write", "close"}
              => ReachedSinks(t)

\* t is inside the store call after its append while u holds a lock inside
\* its file block
C17_Witness ==
    \E t, u \in Threads :
        /\ t # u
        /\ InStore(t) /\ Len(hist[t].appended) = 1
        /\ pc[u] = "write" /\ held[u] # {}

(***************************************************************************)
(* C18: the lock is released on every way out of the file block.  An I/O   *)
(* error leaves the handler as an OSError; a finished invocation holds no  *)
(* lock; and after a failure on path K a thread waiting for K's lock can   *)
(* acquire it as soon as no thread is inside K's file block.               *)
(***************************************************************************)
C18_LockReleasedOnAllPaths ==
    /\ \A t \in Threads : Finished(t) => held[t] = {}
    /\ \A t \in Threads : hist[t].ioerr => (pc[t] = "raised" /\ exc[t] = "OSError")
    /\ \A t, u \in Threads :
          (/\ hist[t].ioerr
           /\ pc[u] = "acquire" /\ loc[u].fpath = loc[t].fpath
           /\ \A w \in Threads : InFile(w) => loc[w].fpath # loc[u].fpath)
          => ENABLED LockAcquire(u)

\* t's append to K has failed; u has since acquired the very lock t held
\* and written its whole line to K
C18_Witness ==
    \E t, u \in Threads :
        /\ t # u
        /\ hist[t].ioerr /\ exc[t] = "OSError"
        /\ loc[u].fpath = loc[t].fpath /\ loc[u].lock = loc[t].lock
        /\ pc[u] = "close" /\ loc[u].lock \in held[u]

(***************************************************************************)
(* C19: with by_day on, every line in a day file carries the date that is  *)
(* in the file's name.  Fails: _format_template and get_fpath each read    *)
(* the clock, so a line rendered before midnight goes to the file of the   *)
(* next day when get_fpath runs after it.                                  *)
(***************************************************************************)
C19_DateMatchesFile ==
    \A p \in Paths :
        p.date # NoDate =>
            \A i \in 1..Len(files[p]) : files[p][i].line.date = p.date

(***************************************************************************)
(* C20: the handlers cannot deadlock.  A thread holds at most one lock at  *)
(* any time; while an invocation is running, some running invocation can   *)
(* take a step; under fair scheduling every invocation that has started    *)
(* finishes, and once invocations are running a state follows in which     *)
(* none is and every lock is free.                                         *)
(***************************************************************************)
AllFree == \A l \in { registry[p] : p \in Paths } \cup { loc[t].lock : t \in Threads } :
               ~Locked(l)

C20_NoDeadlock ==
    /\ [](\A t \in Threads : Cardinality(held[t]) <= 1)
    /\ []((\E t \in Threads : Running(t))
            => \E t \in Threads : Running(t) /\ ENABLED (FanStep(t) \/ SinkStep(t)))
    /\ \A t \in Threads : Running(t) ~> Finished(t)
    /\ (\E t \in Threads : Running(t))
          ~> ((\A t \in Threads : ~Running(t)) /\ AllFree)

\* a fan-out handler is inside the file block of its second target,
\* holding that target's lock alone, while another thread waits for it
C20_Witness ==
    \E t, u \in Threads :
        /\ t # u
        /\ FanOut(ev[t]) /\ pc[t] = "write" /\ Len(hist[t].appended) = 1
        /\ Cardinality(held[t]) = 1
        /\ pc[u] = "acquire" /\ loc[u].lock \in held[t]

====
